---------------------------- MODULE Spec2Model ----------------------------
(***************************************************************************)
(* Element resolution and self-healing of testzen-lite.                   *)
(*                                                                         *)
(*   Spec      src/src/utils/device_utils.py: ElementFinder and            *)
(*             DeviceManager.find_element_with_smart_fallback /            *)
(*             _scroll_to_element, one step per driver interaction.        *)
(*   HealSpec  src/framework/core/self_healing.py: SelfHealingEngine       *)
(*             .find_element_with_healing with its cache and learner.      *)
(*   FindSpec  ElementFinder.find_element_safe called on its own, also by  *)
(*             execute_step of src/src/automation/testzen_automation.py.   *)
(*   UnitSpec  single calls of _validate_healed_element, of                *)
(*             ElementLearner.predict_success and of                       *)
(*             SmartElementFinder._is_actionable.                          *)
(*   PipelineSpec  find_element_with_smart_fallback and                    *)
(*             find_element_with_healing, one request at a time.           *)
(*   LearnSpec  ElementLearner.learn_element called on its own.            *)
(*   FrameworkSpec  src/framework/core/element_finder.py: find_element     *)
(*             and is_element_present.                                     *)
(*   WaitSpec  ElementFinder.wait_for_element_disappear.                   *)
(*   ReportSpec  find_element_with_healing and generate_healing_report.    *)
(*                                                                         *)
(* Strings are sequences of one-character strings, so that split, strip   *)
(* and substring tests are computed as Python computes them.               *)
(***************************************************************************)
EXTENDS Integers, Sequences, FiniteSets, TLC

VARIABLES
    \* ---- device_utils.py ------------------------------------------------
    pc,            \* position of the running request in its top-level method
    req,           \* arguments of the running request
    ctx,           \* driver.current_context (contexts are numbered, 1 = NATIVE_APP)
    contexts,      \* driver.contexts as seen by this request
    fsActive,      \* a find_element_safe call is running
    fsIdx,         \* enumerate() index of the candidate being tried (1-based)
    fsAttempt,     \* loop variable of _find_single_locator
    fsTimeout,     \* timeout argument of the running find_element_safe call
    fsResult,      \* value returned by the last find_element_safe call
    queryLog,      \* driver.find_element calls of the running/last find_element_safe call
    transportError, \* that call gave up on a driver call that failed in transport
    directAttempt, \* loop variable of the direct stage (line 670)
    scrollAttempt, \* loop variable of _scroll_to_element (line 735)
    swipes,        \* driver.swipe calls that were performed in this request
    scrollBroke,   \* the scroll loop was left through its except/break
    origCtx,       \* current_context saved at line 686 (0 = stage not entered)
    ctxIdx,        \* position of the surface loop in contexts (line 696)
    switchCalls,   \* number of driver.switch_to.context calls of this request
    lastSwitch,    \* the latest of them: its target and whether it succeeded
    result,        \* value returned to the caller of the request
    \* ---- self_healing.py -------------------------------------------------
    hpc,             \* position of the running find_element_with_healing call
    hreq,            \* its locator_type and locator_value
    healing_cache,   \* SelfHealingEngine.healing_cache: element_id -> HealingStrategy
    element_history, \* ElementLearner.element_history: element_id -> list of records
    strategies,      \* the list returned by _generate_healing_strategies
    sIdx,            \* position of the loop of line 190 in that list
    generatorCalls,  \* calls of _generate_healing_strategies in this request
    cachedTry,       \* the cached strategy tried in this request and how it went
    attempted,       \* generated strategies handed to _find_element_regular, in order
    accepted,        \* generated strategies whose element the validator accepted
    origResolved,    \* _find_element_regular returned an element for the original locator
    hresult,         \* how the request ended
    \* ---- single calls of _validate_healed_element and predict_success ------
    unitCall,        \* the call: which method, on which arguments and learner state
    unitOut,         \* what it gave back, once it has run
    \* ---- the caller of find_element_safe -----------------------------------
    observed,        \* what the returned element answered to is_displayed/is_enabled
    \* ---- ElementLearner used on its own -----------------------------------
    learnCalls,      \* learn_element calls made so far
    retrains,        \* _retrain_model calls made so far
    \* ---- framework/core/element_finder.py ----------------------------------
    fwPc,            \* position of the running ElementFinder request
    fwReq,           \* its method, locator_type and timeout argument
    fwTimeout,       \* timeout of the innermost find_element frame
    fwDepth,         \* recursive find_element calls below the caller's frame
    fwWaits,         \* WebDriverWait.until calls of this request
    fwGestures,      \* scroll gestures of this request
    fwScroll,        \* loop variable i of the running _scroll_and_find
    fwProbe,         \* the latest is_element_present call: what the driver saw, what it returned
    fwSeen,          \* some wait of this request saw the element present
    fwResult,        \* how the request ended
    \* ---- device_utils.py: wait_for_element_disappear -----------------------
    waitAttempt,     \* loop variable of wait_for_element_disappear (line 845)
    absentSeen,      \* some find_element_safe call of the loop returned (None, None)
    \* ---- self_healing.py: generate_healing_report --------------------------
    report           \* the dict generate_healing_report returned, until the caller took it

resolverVars == <<pc, req, ctx, contexts, fsActive, fsIdx, fsAttempt,
                  fsTimeout, fsResult, queryLog, transportError, directAttempt, scrollAttempt,
                  swipes, scrollBroke, origCtx, ctxIdx, switchCalls, lastSwitch, result>>

healVars == <<hpc, hreq, healing_cache, element_history, strategies, sIdx,
              generatorCalls, cachedTry, attempted, accepted, origResolved, hresult>>

unitVars == <<unitCall, unitOut>>

callerVars == <<observed>>

learnerVars == <<learnCalls, retrains>>

frameworkVars == <<fwPc, fwReq, fwTimeout, fwDepth, fwWaits, fwGestures, fwScroll,
                   fwProbe, fwSeen, fwResult>>

waiterVars == <<waitAttempt, absentSeen>>

reportVars == <<report>>

vars == <<resolverVars, healVars, unitVars, callerVars, learnerVars, frameworkVars,
          waiterVars, reportVars>>

----------------------------------------------------------------------------
(* Bounds and program constants                                            *)

MaxContexts == 3          \* most contexts the driver lists
MaxScrollsArg == 3        \* largest max_scrolls passed to _scroll_to_element directly

MultiLocatorTimeout == 3  \* timeout of each candidate of a multi-locator
DirectTimeout == 3        \* find_element_safe timeout of the direct stage
MinDirectAttempts == 3    \* max(3, timeout // 3)
ScrollFindTimeout == 2    \* find_element_safe timeout inside the scroll loop
SmartMaxScrolls == 5      \* max_scrolls used by find_element_with_smart_fallback
ContextFindTimeout == 3   \* find_element_safe timeout on an alternate context

Timeouts == {3, 12}

LocatorTypes == {"ID", "xpath", "name"}

RawValues == { <<"a">>,
               <<"o", "r">>,
               <<"a", "|", "o", "r">>,
               <<"a", "|", "|", "b">>,
               <<" ", "|", "a", " ">> }

----------------------------------------------------------------------------
(* String helpers                                                          *)

RECURSIVE SplitAcc(_, _, _)
SplitAcc(s, cur, acc) ==
    IF s = <<>> THEN Append(acc, cur)
    ELSE IF Head(s) = "|" THEN SplitAcc(Tail(s), <<>>, Append(acc, cur))
    ELSE SplitAcc(Tail(s), Append(cur, Head(s)), acc)

\* str.split('|')
Split(s) == SplitAcc(s, <<>>, <<>>)

RECURSIVE LStrip(_)
LStrip(s) == IF s # <<>> /\ Head(s) = " " THEN LStrip(Tail(s)) ELSE s

RECURSIVE RStrip(_)
RStrip(s) ==
    IF s # <<>> /\ s[Len(s)] = " " THEN RStrip(SubSeq(s, 1, Len(s) - 1)) ELSE s

\* str.strip()
Strip(s) == RStrip(LStrip(s))

\* '|' in str(locator_value)
HasPipe(s) == \E i \in 1..Len(s) : s[i] = "|"

\* 'or' in locator_value.lower()
HasOr(s) == \E i \in 1..(Len(s) - 1) : s[i] = "o" /\ s[i + 1] = "r"

\* locator_type.lower()
Lower(t) == IF t = "ID" THEN "id" ELSE t

----------------------------------------------------------------------------
(* ElementFinder.find_element_safe / _find_single_locator                  *)

\* the list find_element_safe iterates over
Locators(raw) ==
    IF HasPipe(raw)
    THEN [i \in 1..Len(Split(raw)) |-> Strip(Split(raw)[i])]
    ELSE <<raw>>

CandidateAtReversed(locs, idx) == locs[Len(locs) - idx + 1]

\* enumerate(locators, 1): the candidate tried at index idx
CandidateAt(locs, idx) == locs[idx]

\* timeout handed to _find_single_locator
PerCandidateTimeout(raw, timeout) ==
    IF HasPipe(raw) THEN MultiLocatorTimeout ELSE timeout

NotFound == [found |-> FALSE, attempt |-> 0, locator |-> <<>>, total |-> 0]

\* why a driver.find_element call raised: the element is absent
\* (NoSuchElementException) or the driver could not be reached
MissKinds == {"absent", "transport"}

\* the bare except of _find_single_locator: no exception leaves the loop
ExceptionSwallowed(kind) == kind \in MissKinds

\* the driver answers of one loop iteration of _find_single_locator:
\* the sequence of find_element outcomes (TRUE = an element came back)
IterationOutcomes(ltype, value) ==
    CASE Lower(ltype) = "xpath" ->
             {<<TRUE>>} \cup (IF HasOr(value)
                              THEN {<<FALSE, a>> : a \in BOOLEAN}
                              ELSE {<<FALSE>>})
      [] Lower(ltype) \in {"id", "class", "content-desc"} ->
             {<<a>> : a \in BOOLEAN}
      [] OTHER -> {<<>>}

IterationFound(outs) == outs # <<>> /\ outs[Len(outs)]

StartFind(timeout) ==
    /\ fsActive' = TRUE
    /\ fsIdx' = 1
    /\ fsAttempt' = 0
    /\ fsTimeout' = timeout
    /\ queryLog' = <<>>
    /\ transportError' = FALSE
    /\ fsResult' = NotFound

NoRequest == [op |-> "none", ltype |-> "id", raw |-> <<>>, timeout |-> 0, maxScrolls |-> 0]
NoSwitch == [target |-> 0, ok |-> FALSE]
NoResult == [status |-> "none", stage |-> "none", info |-> NotFound]

Returned(stage, info) ==
    [status |-> IF info.found THEN "found" ELSE "notfound", stage |-> stage, info |-> info]

\* one iteration of the loop of _find_single_locator for the current candidate
\* of the running find_element_safe call, and what follows it without a
\* further driver call: the next candidate, or the return of find_element_safe
FindSingleLocatorStep ==
    /\ fsActive
    /\ LET locs == Locators(req.raw)
           cur == CandidateAt(locs, fsIdx)
           limit == PerCandidateTimeout(req.raw, fsTimeout)
       IN  \E outs \in IterationOutcomes(req.ltype, cur), kind \in MissKinds :
             /\ ExceptionSwallowed(kind)
             /\ queryLog' = queryLog \o
                    [k \in 1..Len(outs) |-> [idx |-> fsIdx, value |-> cur, hit |-> outs[k]]]
             /\ IF IterationFound(outs)
                THEN /\ fsActive' = FALSE
                     /\ fsResult' = [found |-> TRUE, attempt |-> fsIdx,
                                     locator |-> cur, total |-> Len(locs)]
                     /\ UNCHANGED <<fsIdx, fsAttempt, transportError>>
                ELSE IF fsAttempt + 1 < limit
                THEN /\ fsAttempt' = fsAttempt + 1
                     /\ UNCHANGED <<fsActive, fsIdx, fsResult, transportError>>
                ELSE IF fsIdx < Len(locs)
                THEN /\ fsIdx' = fsIdx + 1
                     /\ fsAttempt' = 0
                     /\ UNCHANGED <<fsActive, fsResult, transportError>>
                ELSE /\ fsActive' = FALSE
                     /\ fsResult' = NotFound
                     /\ transportError' = (outs # <<>> /\ kind = "transport")
                     /\ UNCHANGED <<fsIdx, fsAttempt>>
    /\ UNCHANGED <<pc, req, ctx, contexts, fsTimeout, directAttempt,
                   scrollAttempt, swipes, scrollBroke, origCtx, ctxIdx, switchCalls, lastSwitch, result>>
    /\ UNCHANGED <<healVars, unitVars, callerVars, learnerVars, frameworkVars, waiterVars, reportVars>>

----------------------------------------------------------------------------
(* Requests                                                                *)

NewRequest(r, ctxs) ==
    /\ pc = "idle"
    /\ req' = r
    /\ contexts' = ctxs
    /\ directAttempt' = 0
    /\ scrollAttempt' = 0
    /\ swipes' = 0
    /\ scrollBroke' = FALSE
    /\ origCtx' = 0
    /\ ctxIdx' = 0
    /\ switchCalls' = 0
    /\ lastSwitch' = NoSwitch
    /\ result' = NoResult
    /\ UNCHANGED ctx
    /\ UNCHANGED <<healVars, unitVars, callerVars, learnerVars, frameworkVars, waiterVars, reportVars>>

\* driver.contexts: the contexts 1..n, the current one among them; the empty
\* list is what get_available_contexts returns when the driver call fails
ContextLists == {<<>>} \cup {[i \in 1..n |-> i] : n \in ctx..MaxContexts}

\* a caller invokes ElementFinder.find_element_safe
CallFindElementSafe ==
    \E t \in LocatorTypes, raw \in RawValues, timeout \in Timeouts :
        /\ NewRequest([op |-> "find_element_safe", ltype |-> t, raw |-> raw,
                       timeout |-> timeout, maxScrolls |-> 0], <<>>)
        /\ pc' = "find"
        /\ StartFind(timeout)

\* str.lower() on the characters that occur in the step sheets
LowerChar(c) == IF c = "N" THEN "n" ELSE c

LowerStr(s) == [i \in 1..Len(s) |-> LowerChar(s[i])]

\* lv and lv.lower() not in ['nan', 'none', '']
KeptColumn(lv) ==
    lv # <<>> /\ LowerStr(lv) \notin {<<"n", "a", "n">>, <<"n", "o", "n", "e">>, <<>>}

\* [lv for lv in [locator_value, locator_value_2, locator_value_3] if ...]
RECURSIVE KeptColumns(_)
KeptColumns(cols) ==
    IF cols = <<>> THEN <<>>
    ELSE (IF KeptColumn(Head(cols)) THEN <<Head(cols)>> ELSE <<>>) \o KeptColumns(Tail(cols))

\* '|'.join(values)
RECURSIVE Join(_)
Join(vals) ==
    IF vals = <<>> THEN <<>>
    ELSE IF Len(vals) = 1 THEN vals[1]
    ELSE vals[1] \o <<"|">> \o Join(Tail(vals))

\* the locator_value execute_step builds from the three locator columns of a row
StepLocatorValue(row) ==
    LET kept == KeptColumns([i \in 1..3 |-> Strip(row[i])])
    IN  IF Len(kept) > 1 THEN Join(kept)
        ELSE IF kept # <<>> THEN kept[1]
        ELSE <<>>

\* rows of a step sheet: the cells 'Locator Value', 'Locator Value 2', 'Locator Value 3'
StepRows ==
    { << <<"a">>, <<"n", "a", "n">>, <<>> >>,
      << <<"a", "|", "|", "b">>, <<"N", "o", "n", "e">>, <<" ">> >>,
      << <<" ", "a">>, <<"o", "r", " ">>, <<"n", "a", "n">> >>,
      << <<"n", "a", "n">>, <<>>, <<" ">> >> }

StepFindTimeout == 3

\* execute_step runs a scroll_and_click row up to its first find_element_safe call
CallExecuteStep ==
    \E t \in LocatorTypes, row \in StepRows :
        /\ NewRequest([op |-> "execute_step", ltype |-> t, raw |-> StepLocatorValue(row),
                       timeout |-> StepFindTimeout, maxScrolls |-> 0], <<>>)
        /\ pc' = "find"
        /\ StartFind(StepFindTimeout)

\* find_element_safe returns to that caller
FindElementSafeReturn ==
    /\ pc = "find" /\ ~fsActive
    /\ pc' = "done"
    /\ result' = Returned("find", fsResult)
    /\ UNCHANGED <<req, ctx, contexts, fsActive, fsIdx, fsAttempt, fsTimeout,
                   fsResult, queryLog, transportError, directAttempt, scrollAttempt, swipes, scrollBroke,
                   origCtx, ctxIdx, switchCalls, lastSwitch>>
    /\ UNCHANGED <<healVars, unitVars, callerVars, learnerVars, frameworkVars, waiterVars, reportVars>>

\* what is_displayed() and is_enabled() answer for an element the driver returned
ElementStates == [displayed : BOOLEAN, enabled : BOOLEAN]

NotObserved == [done |-> FALSE, displayed |-> FALSE, enabled |-> FALSE]

\* the element find_element_safe handed back is asked is_displayed() and
\* is_enabled(); find_element_safe and _find_single_locator ask neither
InspectReturned ==
    /\ pc = "done"
    /\ req.op \in {"find_element_safe", "execute_step"}
    /\ result.status = "found"
    /\ ~observed.done
    /\ \E el \in ElementStates :
         observed' = [done |-> TRUE, displayed |-> el.displayed, enabled |-> el.enabled]
    /\ UNCHANGED <<resolverVars, healVars, unitVars, learnerVars, frameworkVars, waiterVars, reportVars>>

ScrollLoopRunsOnceMore(i, n) == i <= n

\* for scroll_attempt in range(max_scrolls): is there a pass with index i
ScrollLoopRuns(i, n) == i < n

\* DeviceManager._scroll_to_element is entered with max_scrolls = n
EnterScroll(n) ==
    IF ScrollLoopRuns(0, n)
    THEN /\ pc' = "scroll"
         /\ StartFind(ScrollFindTimeout)
    ELSE /\ pc' = "scroll_end"
         /\ UNCHANGED <<fsActive, fsIdx, fsAttempt, fsTimeout, queryLog, transportError>>
         /\ fsResult' = NotFound

\* a caller invokes DeviceManager._scroll_to_element
CallScrollToElement ==
    \E t \in LocatorTypes, raw \in RawValues, n \in 0..MaxScrollsArg :
        /\ NewRequest([op |-> "scroll_to_element", ltype |-> t, raw |-> raw,
                       timeout |-> 0, maxScrolls |-> n], <<>>)
        /\ EnterScroll(n)

\* a caller invokes DeviceManager.find_element_with_smart_fallback
CallSmartFallback ==
    \E t \in LocatorTypes, raw \in RawValues, timeout \in Timeouts,
       ctxs \in ContextLists :
        /\ NewRequest([op |-> "smart_fallback", ltype |-> t, raw |-> raw,
                       timeout |-> timeout, maxScrolls |-> SmartMaxScrolls], ctxs)
        /\ pc' = "direct"
        /\ StartFind(DirectTimeout)

----------------------------------------------------------------------------
(* DeviceManager.find_element_with_smart_fallback and _scroll_to_element   *)

Max(a, b) == IF a >= b THEN a ELSE b

\* range(max(3, timeout // 3))
DirectAttempts(timeout) == Max(MinDirectAttempts, timeout \div 3)

\* lines 670-678: the direct stage looks at the result of its find_element_safe
DirectStep ==
    /\ pc = "direct" /\ ~fsActive
    /\ IF fsResult.found
       THEN /\ pc' = "done"
            /\ result' = Returned("direct", fsResult)
            /\ UNCHANGED <<directAttempt, fsActive, fsIdx, fsAttempt, fsTimeout,
                           fsResult, queryLog, transportError>>
       ELSE /\ directAttempt' = directAttempt + 1
            /\ UNCHANGED result
            /\ IF directAttempt + 1 < DirectAttempts(req.timeout)
               THEN /\ StartFind(DirectTimeout)
                    /\ UNCHANGED pc
               ELSE EnterScroll(req.maxScrolls)
    /\ UNCHANGED <<req, ctx, contexts, scrollAttempt, swipes, scrollBroke,
                   origCtx, ctxIdx, switchCalls, lastSwitch>>
    /\ UNCHANGED <<healVars, unitVars, callerVars, learnerVars, frameworkVars, waiterVars, reportVars>>

\* lines 735-760: one pass of the scroll loop after its find_element_safe;
\* gestureOk = get_window_size and swipe both returned without raising
ScrollStep ==
    /\ pc = "scroll" /\ ~fsActive
    /\ IF fsResult.found
       THEN /\ pc' = "scroll_end"
            /\ UNCHANGED <<scrollAttempt, swipes, scrollBroke, fsActive, fsIdx, fsAttempt,
                           fsTimeout, fsResult, queryLog, transportError>>
       ELSE \E gestureOk \in BOOLEAN :
              IF gestureOk
              THEN /\ swipes' = swipes + 1
                   /\ scrollAttempt' = scrollAttempt + 1
                   /\ UNCHANGED scrollBroke
                   /\ IF ScrollLoopRuns(scrollAttempt + 1, req.maxScrolls)
                      THEN /\ StartFind(ScrollFindTimeout)
                           /\ UNCHANGED pc
                      ELSE /\ pc' = "scroll_end"
                           /\ UNCHANGED <<fsActive, fsIdx, fsAttempt, fsTimeout,
                                          fsResult, queryLog, transportError>>
              ELSE /\ scrollBroke' = TRUE
                   /\ pc' = "scroll_end"
                   /\ UNCHANGED <<scrollAttempt, swipes, fsActive, fsIdx, fsAttempt,
                                  fsTimeout, fsResult, queryLog, transportError>>
    /\ UNCHANGED <<req, ctx, contexts, directAttempt, origCtx, ctxIdx,
                   switchCalls, lastSwitch, result>>
    /\ UNCHANGED <<healVars, unitVars, callerVars, learnerVars, frameworkVars, waiterVars, reportVars>>

\* _scroll_to_element returns: to its caller, or into lines 679-686 of
\* find_element_with_smart_fallback
\* len(contexts) > 1: the surface stage is entered only for a hybrid app
HasAlternateSurfacesOrOne(ctxs) == Len(ctxs) >= 1

HasAlternateSurfaces(ctxs) == Len(ctxs) > 1

ScrollReturn ==
    /\ pc = "scroll_end"
    /\ IF req.op = "scroll_to_element" \/ fsResult.found
       THEN /\ pc' = "done"
            /\ result' = Returned("scroll", fsResult)
            /\ UNCHANGED <<origCtx, ctxIdx, fsActive, fsIdx, fsAttempt, fsTimeout,
                           fsResult, queryLog, transportError>>
       ELSE /\ UNCHANGED result
            /\ IF HasAlternateSurfaces(contexts)
               THEN /\ origCtx' = ctx
                    /\ ctxIdx' = 1
                    /\ pc' = "surface"
                    /\ UNCHANGED <<fsActive, fsIdx, fsAttempt, fsTimeout, fsResult, queryLog, transportError>>
               ELSE /\ pc' = "final"
                    /\ StartFind(req.timeout)
                    /\ UNCHANGED <<origCtx, ctxIdx>>
    /\ UNCHANGED <<req, ctx, contexts, directAttempt, scrollAttempt, swipes,
                   scrollBroke, switchCalls, lastSwitch>>
    /\ UNCHANGED <<healVars, unitVars, callerVars, learnerVars, frameworkVars, waiterVars, reportVars>>

\* driver.switch_to.context(target): the context after the call
SwitchTo(current, target, ok) == IF ok THEN target ELSE current

ContextAfterMatchRestored(current, orig) == orig

\* the context the surface stage leaves the driver in after a match
ContextAfterMatch(current, orig) == current

\* the context the surface stage switches to after a miss on tried
SwitchBackTarget(orig, tried) == orig

\* lines 696-700 and 712-717: the surface loop reaches its next context
SurfaceStep ==
    /\ pc = "surface" /\ ~fsActive
    /\ ctxIdx <= Len(contexts)
    /\ LET c == contexts[ctxIdx]
       IN  IF c = origCtx
           THEN /\ ctxIdx' = ctxIdx + 1
                /\ UNCHANGED <<pc, ctx, switchCalls, lastSwitch, fsActive, fsIdx, fsAttempt, fsTimeout,
                               fsResult, queryLog, transportError>>
           ELSE \E ok \in BOOLEAN :
                  IF ok
                  THEN /\ ctx' = SwitchTo(ctx, c, TRUE)
                       /\ switchCalls' = switchCalls + 1
                       /\ lastSwitch' = [target |-> c, ok |-> TRUE]
                       /\ pc' = "surface_find"
                       /\ StartFind(ContextFindTimeout)
                       /\ UNCHANGED ctxIdx
                  ELSE \E ok2 \in BOOLEAN :
                         /\ ctx' = SwitchTo(ctx, SwitchBackTarget(origCtx, c), ok2)
                         /\ switchCalls' = switchCalls + 2
                         /\ lastSwitch' = [target |-> SwitchBackTarget(origCtx, c), ok |-> ok2]
                         /\ ctxIdx' = ctxIdx + 1
                         /\ UNCHANGED <<pc, fsActive, fsIdx, fsAttempt, fsTimeout,
                                        fsResult, queryLog, transportError>>
    /\ UNCHANGED <<req, contexts, directAttempt, scrollAttempt, swipes,
                   scrollBroke, origCtx, result>>
    /\ UNCHANGED <<healVars, unitVars, callerVars, learnerVars, frameworkVars, waiterVars, reportVars>>

\* lines 703-717: the surface stage looks at the result on the alternate context
SurfaceFindStep ==
    /\ pc = "surface_find" /\ ~fsActive
    /\ IF fsResult.found
       THEN /\ pc' = "done"
            /\ result' = Returned("surface", fsResult)
            /\ ctx' = ContextAfterMatch(ctx, origCtx)
            /\ UNCHANGED <<switchCalls, lastSwitch, ctxIdx>>
       ELSE \E ok1 \in BOOLEAN, ok2 \in BOOLEAN :
              LET back == SwitchBackTarget(origCtx, contexts[ctxIdx])
              IN  /\ ctx' = SwitchTo(ctx, back, ok1 \/ ok2)
                  /\ switchCalls' = switchCalls + (IF ok1 THEN 1 ELSE 2)
                  /\ lastSwitch' = [target |-> back, ok |-> ok1 \/ ok2]
                  /\ ctxIdx' = ctxIdx + 1
                  /\ pc' = "surface"
                  /\ UNCHANGED result
    /\ UNCHANGED <<req, contexts, fsActive, fsIdx, fsAttempt, fsTimeout,
                   fsResult, queryLog, transportError, directAttempt, scrollAttempt, swipes, scrollBroke,
                   origCtx>>
    /\ UNCHANGED <<healVars, unitVars, callerVars, learnerVars, frameworkVars, waiterVars, reportVars>>

\* line 720: the surface loop is over, the final find_element_safe starts
FinalAttempt ==
    /\ pc = "surface" /\ ~fsActive
    /\ ctxIdx > Len(contexts)
    /\ pc' = "final"
    /\ StartFind(req.timeout)
    /\ UNCHANGED <<req, ctx, contexts, directAttempt, scrollAttempt, swipes,
                   scrollBroke, origCtx, ctxIdx, switchCalls, lastSwitch, result>>
    /\ UNCHANGED <<healVars, unitVars, callerVars, learnerVars, frameworkVars, waiterVars, reportVars>>

\* line 720: find_element_with_smart_fallback returns the final result
FinalReturn ==
    /\ pc = "final" /\ ~fsActive
    /\ pc' = "done"
    /\ result' = Returned("final", fsResult)
    /\ UNCHANGED <<req, ctx, contexts, fsActive, fsIdx, fsAttempt, fsTimeout,
                   fsResult, queryLog, transportError, directAttempt, scrollAttempt, swipes, scrollBroke,
                   origCtx, ctxIdx, switchCalls, lastSwitch>>
    /\ UNCHANGED <<healVars, unitVars, callerVars, learnerVars, frameworkVars, waiterVars, reportVars>>

\* the caller has taken the result; the frame of the request is discarded
\* and only the driver's current context outlives it
RequestEnd ==
    /\ pc = "done"
    /\ pc' = "idle"
    /\ req' = NoRequest
    /\ contexts' = <<>>
    /\ fsActive' = FALSE
    /\ fsIdx' = 1
    /\ fsAttempt' = 0
    /\ fsTimeout' = 0
    /\ fsResult' = NotFound
    /\ queryLog' = <<>>
    /\ transportError' = FALSE
    /\ directAttempt' = 0
    /\ scrollAttempt' = 0
    /\ swipes' = 0
    /\ scrollBroke' = FALSE
    /\ origCtx' = 0
    /\ ctxIdx' = 0
    /\ switchCalls' = 0
    /\ lastSwitch' = NoSwitch
    /\ result' = NoResult
    /\ observed' = NotObserved
    /\ waitAttempt' = 0
    /\ absentSeen' = FALSE
    /\ UNCHANGED ctx
    /\ UNCHANGED <<healVars, unitVars, learnerVars, frameworkVars, reportVars>>

----------------------------------------------------------------------------
(* self_healing.py: values                                                 *)
(* A locator value is a sequence of tokens: words, separators, and the     *)
(* xpath fragments "//" and "[1]".                                         *)

Separators == {"_", "-", ":"}
Words == {"login", "btn", "9f3a", "submit", "div", "7c21"}

LoginValue == <<"login", "_", "btn", "_", "9f3a">>

HealRequests == { [ltype |-> "id",    value |-> LoginValue],
                  [ltype |-> "name",  value |-> <<"submit">>],
                  [ltype |-> "xpath", value |-> <<"//", "div", "[1]">>] }

\* best_score values (in hundredths) the sampled elements can give _try_ai_prediction
BestScores == {0, 60, 65, 80}

\* the elements a locator can resolve to, as the validator reads them:
\* similarities in hundredths, stale = the driver reads raise
\* attrSim is the largest ratio among the attributes id, name, class, placeholder
Elements == [displayed : BOOLEAN, enabled : BOOLEAN, textSim : {50, 53},
             attrSim : {20, 50, 51}, stale : BOOLEAN]

\* f"{locator_type}:{locator_value}"
ElementId(ltype, value) == <<ltype, ":">> \o value

NoStrategy == [name |-> "none", confidence |-> 0, new_locator_type |-> "none",
               new_locator_value |-> <<>>]

\* str.title() of the words in use
TitleWord(w) ==
    CASE w = "login" -> "Login"
      [] w = "btn" -> "Btn"
      [] w = "9f3a" -> "9F3A"
      [] w = "submit" -> "Submit"
      [] w = "div" -> "Div"
      [] w = "7c21" -> "7C21"
      [] OTHER -> w

\* any(char in locator_value for char in ['_', '-', ':'])
HasSeparator(v) == \E i \in 1..Len(v) : v[i] \in Separators

RECURSIVE StablePart(_)
\* re.split(r'[_\-:]', locator_value)[0]
StablePart(v) ==
    IF v = <<>> \/ Head(v) \in Separators THEN <<>>
    ELSE <<Head(v)>> \o StablePart(Tail(v))

\* locator_value.replace('_', ' ').replace('-', ' ').title()
ReadableText(v) ==
    [i \in 1..Len(v) |-> IF v[i] \in {"_", "-"} THEN " " ELSE TitleWord(v[i])]

RECURSIVE FlexibleXPath(_)
\* locator_value.replace('[1]', '').replace('//', '//*//')
FlexibleXPath(v) ==
    IF v = <<>> THEN <<>>
    ELSE IF Head(v) = "[1]" THEN FlexibleXPath(Tail(v))
    ELSE IF Head(v) = "//" THEN <<"//*//">> \o FlexibleXPath(Tail(v))
    ELSE <<Head(v)>> \o FlexibleXPath(Tail(v))

----------------------------------------------------------------------------
(* self_healing.py: the healing heuristics (each returns a sequence of     *)
(* zero or one strategy) and _generate_healing_strategies                  *)

TryPartialMatch(ltype, v) ==
    IF ltype = "id" /\ HasSeparator(v)
    THEN <<[name |-> "Partial ID Match", confidence |-> 70, new_locator_type |-> "xpath",
            new_locator_value |-> <<"//*[starts-with(@id, '">> \o StablePart(v) \o <<"')]">>]>>
    ELSE <<>>

TryTextSearch(ltype, v) ==
    IF ltype \in {"id", "name", "class"}
    THEN <<[name |-> "Text Search", confidence |-> 60, new_locator_type |-> "xpath",
            new_locator_value |-> <<"//*[contains(text(), '">> \o ReadableText(v)
                                   \o <<"') or contains(@value, '">> \o ReadableText(v)
                                   \o <<"')]">>]>>
    ELSE <<>>

TryRelativeXPath(ltype, v) ==
    IF ltype = "xpath" /\ Len(v) >= 1 /\ v[1] = "//"
    THEN <<[name |-> "Flexible XPath", confidence |-> 50, new_locator_type |-> "xpath",
            new_locator_value |-> FlexibleXPath(v)]>>
    ELSE <<>>

TryCssSelector(ltype, v) ==
    IF ltype \in {"id", "class", "name"}
    THEN <<[name |-> "CSS Selector", confidence |-> 65, new_locator_type |-> "css",
            new_locator_value |->
                IF ltype = "id" THEN <<"#">> \o v
                ELSE IF ltype = "class"
                THEN <<".">> \o [i \in 1..Len(v) |-> IF v[i] = " " THEN "." ELSE v[i]]
                ELSE <<"[name='">> \o v \o <<"']">>]>>
    ELSE <<>>

\* bestScore: the largest similarity among the sampled elements, 0 when the
\* driver call raised or nothing was sampled; the best match carries an id
TryAIPrediction(ltype, v, bestScore) ==
    IF bestScore > 60
    THEN <<[name |-> "AI Prediction", confidence |-> bestScore, new_locator_type |-> "id",
            new_locator_value |-> <<"login", "_", "btn", "_", "7c21">>]>>
    ELSE <<>>

TryVisualRecognition(ltype, v) == <<>>

InsertAscending(sorted, x) ==
    LET ahead == Cardinality({i \in 1..Len(sorted) : sorted[i].confidence <= x.confidence})
    IN  SubSeq(sorted, 1, ahead) \o <<x>> \o SubSeq(sorted, ahead + 1, Len(sorted))

\* where list.sort(key=confidence, reverse=True) puts x among the sorted ones:
\* behind every element whose confidence is not smaller (the sort is stable)
InsertByConfidence(sorted, x) ==
    LET ahead == Cardinality({i \in 1..Len(sorted) : sorted[i].confidence >= x.confidence})
    IN  SubSeq(sorted, 1, ahead) \o <<x>> \o SubSeq(sorted, ahead + 1, Len(sorted))

RECURSIVE SortByConfidence(_)
\* strategies.sort(key=lambda x: x.confidence, reverse=True)
SortByConfidence(list) ==
    IF list = <<>> THEN <<>>
    ELSE InsertByConfidence(SortByConfidence(SubSeq(list, 1, Len(list) - 1)),
                            list[Len(list)])

\* the names the heuristics give their strategies, in the order the heuristics
\* are registered in self.healing_strategies (_try_visual_recognition names none)
RegistrationOrder ==
    <<"Partial ID Match", "Text Search", "Flexible XPath", "CSS Selector", "AI Prediction">>

RegistrationRank(name) ==
    CHOOSE i \in 1..Len(RegistrationOrder) : RegistrationOrder[i] = name

EmittedAIFirst(ltype, v, bestScore) ==
    TryAIPrediction(ltype, v, bestScore) \o TryPartialMatch(ltype, v)
    \o TryTextSearch(ltype, v) \o TryRelativeXPath(ltype, v)
    \o TryCssSelector(ltype, v) \o TryVisualRecognition(ltype, v)

\* the strategies in the order self.healing_strategies emits them
EmittedStrategies(ltype, v, bestScore) ==
    TryPartialMatch(ltype, v) \o TryTextSearch(ltype, v) \o TryRelativeXPath(ltype, v)
    \o TryCssSelector(ltype, v) \o TryAIPrediction(ltype, v, bestScore)
    \o TryVisualRecognition(ltype, v)

GenerateHealingStrategies(ltype, v, bestScore) ==
    SortByConfidence(EmittedStrategies(ltype, v, bestScore))

----------------------------------------------------------------------------
(* self_healing.py: validator and learner                                  *)

SimilarityReaches(sim) == sim >= 50

\* self._calculate_similarity(...) > 0.5
SimilarityPasses(sim) == sim > 50

AcceptingRuleWithoutLastResort(el) ==
    IF el.stale THEN "rejected"
    ELSE IF ~el.displayed \/ ~el.enabled THEN "rejected"
    ELSE IF SimilarityPasses(el.textSim) THEN "text"
    ELSE IF SimilarityPasses(el.attrSim) THEN "attribute"
    ELSE "rejected"

\* the return statement _validate_healed_element leaves through on el
AcceptingRule(el) ==
    IF el.stale THEN "rejected"
    ELSE IF ~el.displayed \/ ~el.enabled THEN "rejected"
    ELSE IF SimilarityPasses(el.textSim) THEN "text"
    ELSE IF SimilarityPasses(el.attrSim) THEN "attribute"
    ELSE "last_resort"

\* _validate_healed_element on the element el
ValidateHealedElement(el) == AcceptingRule(el) # "rejected"

\* the names the module binds at import: time is not among them
TimeModuleImported == FALSE

\* TfidfVectorizer.fit_transform raises on a document without any word
ExtractFeaturesRaises(sigValue) == ~\E i \in 1..Len(sigValue) : sigValue[i] \in Words

\* ElementLearner.learn_element: the history afterwards and whether it raised
LearnElement(history, id, sigValue, success) ==
    IF ExtractFeaturesRaises(sigValue)
    THEN [history |-> history, raised |-> TRUE]
    ELSE LET h1 == IF id \in DOMAIN history THEN history ELSE history @@ (id :> <<>>)
         IN  IF ~TimeModuleImported
             THEN [history |-> h1, raised |-> TRUE]
             ELSE [history |-> [h1 EXCEPT ![id] =
                                   Append(@, [value |-> sigValue, success |-> success])],
                   raised |-> FALSE]

\* ElementSignature values handed to predict_success (token sequences)
Signatures ==
    { [locator_value |-> LoginValue, text |-> <<"login">>, tag_name |-> <<"div">>,
       attributes |-> <<"submit">>],
      [locator_value |-> <<"#">>, text |-> <<"submit">>, tag_name |-> <<>>,
       attributes |-> <<>>],
      [locator_value |-> <<"_">>, text |-> <<>>, tag_name |-> <<>>, attributes |-> <<>>],
      [locator_value |-> <<>>, text |-> <<>>, tag_name |-> <<>>, attributes |-> <<>>] }

\* ' '.join(text_features) of _extract_features
SignatureDocument(sig) ==
    sig.locator_value \o <<" ">> \o sig.text \o <<" ">> \o sig.tag_name
    \o <<" ">> \o sig.attributes

\* what classifier.predict_proba gives on a fitted model: a probability in
\* hundredths, or -1 when the call raises
ModelAnswers == {-1, 0, 35, 100}

NeutralProbability == 50

\* ElementLearner.predict_success: fitted = the classifier has been fitted
PredictSuccess(sig, fitted, answer) ==
    IF ExtractFeaturesRaises(SignatureDocument(sig))
    THEN [raised |-> TRUE, value |-> 0]
    ELSE IF ~fitted \/ answer = -1
    THEN [raised |-> FALSE, value |-> NeutralProbability]
    ELSE [raised |-> FALSE, value |-> answer]

----------------------------------------------------------------------------
(* self_healing.py: single calls of the validator and of predict_success   *)

\* smart_element_finder.py: the element handed to _is_actionable.  A class name
\* is the sequence of its words, so that "x in tag_name" is a test for a
\* contiguous run of words.
TagNames == { <<>>,
              <<"android.widget.", "Button">>,
              <<"android.widget.", "Image", "Button">>,
              <<"android.widget.", "EditText">>,
              <<"android.widget.", "AutoComplete", "TextView">>,
              <<"android.widget.", "ScrollView">>,
              <<"android.view.", "View">> }
NoTarget == [present |-> FALSE, enabled |-> FALSE, displayed |-> FALSE,
             tag_name |-> <<>>, clickable |-> FALSE, focusable |-> FALSE,
             stale |-> FALSE]
Targets ==
    {NoTarget} \cup
    [present : {TRUE}, enabled : BOOLEAN, displayed : BOOLEAN, tag_name : TagNames,
     clickable : BOOLEAN, focusable : BOOLEAN, stale : BOOLEAN]

\* str.lower() on one word of a class name
LowerWord(w) ==
    CASE w = "Button" -> "button"
      [] w = "Image" -> "image"
      [] w = "EditText" -> "edittext"
      [] w = "AutoComplete" -> "autocomplete"
      [] w = "TextView" -> "textview"
      [] w = "ScrollView" -> "scrollview"
      [] w = "View" -> "view"
      [] OTHER -> w
LowerTag(tag) == [i \in 1..Len(tag) |-> LowerWord(tag[i])]

\* tag in tag_name
TagIn(tag, tag_name) ==
    \E i \in 0..(Len(tag_name) - Len(tag)) :
        \A j \in 1..Len(tag) : tag_name[i + j] = tag[j]

\* the branch of _is_actionable taken for the action, once the element is known
\* to be enabled and displayed
ActionRule(tag_name, clickable, focusable, action) ==
    CASE action = "click" ->
           LET clickable_tags == {<<"button">>, <<"image", "button">>, <<"textview">>}
           IN  clickable \/ \E tag \in clickable_tags : TagIn(tag, tag_name)
      [] action = "input" ->
           IF focusable /\ TagIn(<<"edittext">>, tag_name) THEN TRUE
           ELSE TagIn(<<"edittext">>, tag_name) \/ TagIn(<<"autocomplete">>, tag_name)
      [] action = "scroll" ->
           LET scroll_tags == {<<"scrollview">>, <<"recyclerview">>, <<"listview">>,
                               <<"viewpager">>}
           IN  \E tag \in scroll_tags : TagIn(tag, tag_name)
      [] OTHER -> TRUE

\* SmartElementFinder._is_actionable(element, action); a stale element raises at
\* its first read and the except clause answers False
IsActionable(element, action) ==
    IF ~element.present THEN FALSE
    ELSE IF element.stale THEN FALSE
    ELSE IF ~(element.enabled /\ element.displayed) THEN FALSE
    ELSE ActionRule(LowerTag(element.tag_name), element.clickable,
                    element.focusable, action)

NoSignature == [locator_value |-> <<>>, text |-> <<>>, tag_name |-> <<>>,
                attributes |-> <<>>]
NoUnitCall == [fn |-> "none", element |-> [displayed |-> FALSE, enabled |-> FALSE,
                                            textSim |-> 0, attrSim |-> 0, stale |-> FALSE],
               signature |-> NoSignature, fitted |-> FALSE, answer |-> -1,
               target |-> NoTarget, action |-> "none"]
NoUnitOut == [done |-> FALSE, rule |-> "none", raised |-> FALSE, value |-> 0,
              actionable |-> FALSE]

UnitCalls ==
    {[NoUnitCall EXCEPT !.fn = "validate", !.element = el] : el \in Elements}
    \cup {[NoUnitCall EXCEPT !.fn = "predict", !.signature = sig] : sig \in Signatures}
    \cup {[NoUnitCall EXCEPT !.fn = "predict", !.signature = sig, !.fitted = TRUE,
                              !.answer = a] : sig \in Signatures, a \in ModelAnswers}
    \cup {[NoUnitCall EXCEPT !.fn = "is_actionable", !.target = t, !.action = a] :
              t \in Targets, a \in {"click", "input", "scroll", "long_press"}}

\* _validate_healed_element(element, original_value) runs
ValidateCall ==
    /\ unitCall.fn = "validate" /\ ~unitOut.done
    /\ unitOut' = [NoUnitOut EXCEPT !.done = TRUE, !.rule = AcceptingRule(unitCall.element)]
    /\ UNCHANGED <<unitCall, resolverVars, healVars, callerVars, learnerVars, frameworkVars, waiterVars, reportVars>>

\* _is_actionable(element, action) runs
ActionableCall ==
    /\ unitCall.fn = "is_actionable" /\ ~unitOut.done
    /\ unitOut' = [NoUnitOut EXCEPT !.done = TRUE,
                      !.actionable = IsActionable(unitCall.target, unitCall.action)]
    /\ UNCHANGED <<unitCall, resolverVars, healVars, callerVars, learnerVars, frameworkVars, waiterVars, reportVars>>

\* predict_success(signature) runs
PredictCall ==
    /\ unitCall.fn = "predict" /\ ~unitOut.done
    /\ LET r == PredictSuccess(unitCall.signature, unitCall.fitted, unitCall.answer)
       IN  unitOut' = [NoUnitOut EXCEPT !.done = TRUE, !.raised = r.raised,
                                        !.value = r.value]
    /\ UNCHANGED <<unitCall, resolverVars, healVars, callerVars, learnerVars, frameworkVars, waiterVars, reportVars>>

----------------------------------------------------------------------------
(* self_healing.py: SelfHealingEngine.find_element_with_healing            *)

\* dict assignment d[k] = v
Put(d, k, v) == [x \in DOMAIN d \cup {k} |-> IF x = k THEN v ELSE d[x]]

NoElement == [displayed |-> FALSE, enabled |-> FALSE, textSim |-> 0, attrSim |-> 0,
              stale |-> FALSE]
NoCachedTry == [strategy |-> NoStrategy, resolved |-> FALSE]
\* validated: _validate_healed_element accepted the element in this request
NoHealResult == [status |-> "none", via |-> "none", strategy |-> NoStrategy,
                 element |-> NoElement, validated |-> FALSE]
NoHealRequest == [ltype |-> "none", value |-> <<>>]

CacheHitByValue(cache, id) == Tail(Tail(id)) \in DOMAIN cache

\* if element_id in self.healing_cache
CacheHit(cache, id) == id \in DOMAIN cache

CacheAfterMissEvicted(cache, id) == [x \in DOMAIN cache \ {id} |-> cache[x]]

\* except: pass -- the cache after the cached strategy failed to resolve
CacheAfterMiss(cache, id) == cache

AfterCachedStrategyFailedRetry == "original"

\* except: pass (lines 184-185): control falls through to line 188
AfterCachedStrategyFailed == "generate"

\* the strategy the loop of line 190 tries in its i-th pass
StrategyAt(list, i) == list[i]

\* a caller invokes find_element_with_healing
HealCall ==
    /\ hpc = "idle"
    /\ \E r \in HealRequests : hreq' = r
    /\ hpc' = "original"
    /\ UNCHANGED <<healing_cache, element_history, strategies, sIdx, generatorCalls,
                   cachedTry, attempted, accepted, origResolved, hresult>>
    /\ UNCHANGED <<resolverVars, unitVars, callerVars, learnerVars, frameworkVars, waiterVars, reportVars>>

\* lines 165-171: the original locator; resolves = _find_element_regular returned
TryOriginal ==
    /\ hpc = "original"
    /\ \E resolves \in BOOLEAN, el \in Elements :
         /\ origResolved' = resolves
         /\ LET learn == LearnElement(element_history, ElementId(hreq.ltype, hreq.value),
                                      hreq.value, TRUE)
            IN  IF resolves
                THEN /\ element_history' = learn.history
                     /\ IF learn.raised
                        THEN /\ hpc' = "cache"
                             /\ UNCHANGED hresult
                        ELSE /\ hpc' = "done"
                             /\ hresult' = [status |-> "returned", via |-> "original",
                                            strategy |-> NoStrategy, element |-> el,
                                            validated |-> FALSE]
                ELSE /\ hpc' = "cache"
                     /\ UNCHANGED <<element_history, hresult>>
    /\ UNCHANGED <<hreq, healing_cache, strategies, sIdx, generatorCalls, cachedTry,
                   attempted, accepted>>
    /\ UNCHANGED <<resolverVars, unitVars, callerVars, learnerVars, frameworkVars, waiterVars, reportVars>>

\* lines 174-185: the healing cache
CacheLookup ==
    /\ hpc = "cache"
    /\ LET id == ElementId(hreq.ltype, hreq.value)
       IN  IF CacheHit(healing_cache, id)
           THEN \E resolves \in BOOLEAN, el \in Elements :
                  /\ cachedTry' = [strategy |-> healing_cache[id], resolved |-> resolves]
                  /\ IF resolves
                     THEN /\ hpc' = "done"
                          /\ hresult' = [status |-> "returned", via |-> "cache",
                                         strategy |-> healing_cache[id], element |-> el,
                                         validated |-> FALSE]
                          /\ UNCHANGED healing_cache
                     ELSE /\ hpc' = AfterCachedStrategyFailed
                          /\ healing_cache' = CacheAfterMiss(healing_cache, id)
                          /\ UNCHANGED hresult
           ELSE /\ hpc' = "generate"
                /\ UNCHANGED <<cachedTry, hresult, healing_cache>>
    /\ UNCHANGED <<hreq, element_history, strategies, sIdx, generatorCalls,
                   attempted, accepted, origResolved>>
    /\ UNCHANGED <<resolverVars, unitVars, callerVars, learnerVars, frameworkVars, waiterVars, reportVars>>

\* line 188: _generate_healing_strategies
Generate ==
    /\ hpc = "generate"
    /\ \E bestScore \in BestScores :
         strategies' = GenerateHealingStrategies(hreq.ltype, hreq.value, bestScore)
    /\ generatorCalls' = generatorCalls + 1
    /\ sIdx' = 1
    /\ hpc' = "loop"
    /\ UNCHANGED <<hreq, healing_cache, element_history, cachedTry, attempted, accepted,
                   origResolved, hresult>>
    /\ UNCHANGED <<resolverVars, unitVars, callerVars, learnerVars, frameworkVars, waiterVars, reportVars>>

\* lines 190-216: one pass of the loop over the generated strategies
TryStrategy ==
    /\ hpc = "loop"
    /\ sIdx <= Len(strategies)
    /\ LET st == StrategyAt(strategies, sIdx)
           id == ElementId(hreq.ltype, hreq.value)
           learn == LearnElement(element_history, id, st.new_locator_value, TRUE)
       IN  /\ attempted' = Append(attempted, st)
           /\ \E resolves \in BOOLEAN, el \in Elements :
                IF resolves /\ ValidateHealedElement(el)
                THEN /\ accepted' = Append(accepted, st)
                     /\ healing_cache' = Put(healing_cache, id, st)
                     /\ element_history' = learn.history
                     /\ IF learn.raised
                        THEN /\ sIdx' = sIdx + 1
                             /\ UNCHANGED <<hpc, hresult>>
                        ELSE /\ hpc' = "done"
                             /\ hresult' = [status |-> "returned", via |-> "strategy",
                                            strategy |-> st, element |-> el,
                                            validated |-> TRUE]
                             /\ UNCHANGED sIdx
                ELSE /\ sIdx' = sIdx + 1
                     /\ UNCHANGED <<accepted, healing_cache, element_history, hpc, hresult>>
    /\ UNCHANGED <<hreq, strategies, generatorCalls, cachedTry, origResolved>>
    /\ UNCHANGED <<resolverVars, unitVars, callerVars, learnerVars, frameworkVars, waiterVars, reportVars>>

\* line 218: every generated strategy has been tried
RaiseFailure ==
    /\ hpc = "loop"
    /\ sIdx > Len(strategies)
    /\ hpc' = "done"
    /\ hresult' = [status |-> "raised", via |-> "none", strategy |-> NoStrategy,
                   element |-> NoElement, validated |-> FALSE]
    /\ UNCHANGED <<hreq, healing_cache, element_history, strategies, sIdx, generatorCalls,
                   cachedTry, attempted, accepted, origResolved>>
    /\ UNCHANGED <<resolverVars, unitVars, callerVars, learnerVars, frameworkVars, waiterVars, reportVars>>

\* the caller has taken the outcome; cache and history outlive the request
HealEnd ==
    /\ hpc = "done"
    /\ hpc' = "idle"
    /\ hreq' = NoHealRequest
    /\ strategies' = <<>>
    /\ sIdx' = 0
    /\ generatorCalls' = 0
    /\ cachedTry' = NoCachedTry
    /\ attempted' = <<>>
    /\ accepted' = <<>>
    /\ origResolved' = FALSE
    /\ hresult' = NoHealResult
    /\ UNCHANGED <<healing_cache, element_history>>
    /\ UNCHANGED <<resolverVars, unitVars, callerVars, learnerVars, frameworkVars, waiterVars, reportVars>>

----------------------------------------------------------------------------
(* self_healing.py: ElementLearner.learn_element called on its own         *)

RecursionLimit == 3       \* frames the interpreter allows below the caller's find_element
MaxWaitTimeout == 2       \* largest timeout passed to wait_for_element_disappear
MaxLearnCalls == 101      \* learn_element calls looked at

RetrainEvery == 100

\* len(self.element_history) % 100 == 0: the length of the dict, its keys
RetrainDue(history) == Cardinality(DOMAIN history) % RetrainEvery = 0

\* the element identities outcomes are reported for

\* one call learn_element(element_id, signature, success); the exception it
\* ends with goes to the caller
LearnCall ==
    /\ learnCalls < MaxLearnCalls
    /\ \E id \in {ElementId(r.ltype, r.value) : r \in HealRequests}, success \in BOOLEAN :
         LET learn == LearnElement(element_history, id, <<"login">>, success)
         IN  /\ element_history' = learn.history
             /\ retrains' = IF ~learn.raised /\ RetrainDue(learn.history)
                            THEN retrains + 1
                            ELSE retrains
    /\ learnCalls' = learnCalls + 1
    /\ UNCHANGED <<hpc, hreq, healing_cache, strategies, sIdx, generatorCalls,
                   cachedTry, attempted, accepted, origResolved, hresult>>
    /\ UNCHANGED <<resolverVars, unitVars, callerVars, frameworkVars, waiterVars, reportVars>>

----------------------------------------------------------------------------
(* framework/core/element_finder.py: ElementFinder                         *)

wait_timeout == 20        \* ElementFinder(driver, wait_timeout=20)
RetryTimeout == 5         \* timeout of the recursive find_element call
ProbeTimeout == 1         \* timeout of is_element_present inside _scroll_and_find
PresentTimeout == 3       \* default timeout of is_element_present
max_scrolls == 5          \* _scroll_and_find(..., max_scrolls=5)

locator_map == {"id", "accessibility_id", "xpath", "class", "name",
                "android_uiautomator", "ios_predicate", "ios_class_chain", "image"}
FwLocatorTypes == {"id", "XPATH", "css"}
FwTimeoutArgs == {0, 10}  \* 0 stands for None

\* locator_type.lower()
LowerType(t) == IF t = "XPATH" THEN "xpath" ELSE t

\* _get_by_type raises ValueError for a type that is not in its map
GetByTypeRaises(t) == LowerType(t) \notin locator_map

\* timeout or self.wait_timeout
TimeoutOr(t) == IF t = 0 THEN wait_timeout ELSE t

\* what WebDriverWait.until can do: give the element, time out, or fail otherwise
WaitOutcomes == {"present", "timeout", "error"}

\* wait_for_element(locator_type, locator_value, timeout, condition='present'):
\* the lookup of the By type is outside the try; inside it both except clauses
\* return None
WaitForElement(t, outcome) ==
    IF GetByTypeRaises(t) THEN [raised |-> TRUE, value |-> "None"]
    ELSE IF outcome = "present" THEN [raised |-> FALSE, value |-> "element"]
    ELSE [raised |-> FALSE, value |-> "None"]

\* is_element_present: True unless wait_for_element raised
IsElementPresent(t, outcome) == ~WaitForElement(t, outcome).raised

NoFwRequest == [op |-> "none", ltype |-> "id", timeout |-> 0]
NoProbe == [done |-> FALSE, outcome |-> "none", returned |-> FALSE]

\* the driver is asked only when the By type was found
ProbeOutcomes(t) == IF GetByTypeRaises(t) THEN {"not_asked"} ELSE WaitOutcomes

Probe(t, outcome) ==
    [done |-> TRUE, outcome |-> outcome, returned |-> IsElementPresent(t, outcome)]

\* find_element(locator_type, locator_value, timeout) is called
CallFrameworkFindElement ==
    /\ fwPc = "idle"
    /\ \E t \in FwLocatorTypes, timeout \in FwTimeoutArgs :
         /\ fwReq' = [op |-> "find_element", ltype |-> t, timeout |-> timeout]
         /\ fwTimeout' = TimeoutOr(timeout)
    /\ fwPc' = "presence"
    /\ UNCHANGED <<fwDepth, fwWaits, fwGestures, fwScroll, fwProbe, fwSeen, fwResult>>
    /\ UNCHANGED <<resolverVars, healVars, unitVars, callerVars, learnerVars, waiterVars, reportVars>>

\* lines 29-38: the By type is looked up, then the wait for presence; an element
\* that is not visible is scrolled to
FwPresenceWait ==
    /\ fwPc = "presence"
    /\ IF GetByTypeRaises(fwReq.ltype)
       THEN /\ fwPc' = "done"
            /\ fwResult' = "ValueError"
            /\ UNCHANGED <<fwWaits, fwGestures, fwScroll, fwSeen>>
       ELSE \E outcome \in WaitOutcomes :
              /\ fwWaits' = fwWaits + 1
              /\ CASE outcome = "present" ->
                       /\ fwPc' = "clickable"
                       /\ fwSeen' = TRUE
                       /\ \E visible \in BOOLEAN :
                            fwGestures' = IF visible THEN fwGestures ELSE fwGestures + 1
                       /\ UNCHANGED <<fwScroll, fwResult>>
                   [] outcome = "timeout" ->
                       /\ fwPc' = "scroll_find"
                       /\ fwScroll' = 0
                       /\ UNCHANGED <<fwGestures, fwSeen, fwResult>>
                   [] OTHER ->
                       /\ fwPc' = "done"
                       /\ fwResult' = "WebDriverException"
                       /\ UNCHANGED <<fwGestures, fwScroll, fwSeen>>
    /\ UNCHANGED <<fwReq, fwTimeout, fwDepth, fwProbe>>
    /\ UNCHANGED <<resolverVars, healVars, unitVars, callerVars, learnerVars, waiterVars, reportVars>>

\* lines 41-46: the wait for the element to be clickable
FwClickableWait ==
    /\ fwPc = "clickable"
    /\ fwWaits' = fwWaits + 1
    /\ \E outcome \in WaitOutcomes :
         CASE outcome = "present" ->
                /\ fwPc' = "done"
                /\ fwResult' = "element"
                /\ UNCHANGED fwScroll
           [] outcome = "timeout" ->
                /\ fwPc' = "scroll_find"
                /\ fwScroll' = 0
                /\ UNCHANGED fwResult
           [] OTHER ->
                /\ fwPc' = "done"
                /\ fwResult' = "WebDriverException"
                /\ UNCHANGED fwScroll
    /\ UNCHANGED <<fwReq, fwTimeout, fwDepth, fwGestures, fwProbe, fwSeen>>
    /\ UNCHANGED <<resolverVars, healVars, unitVars, callerVars, learnerVars, waiterVars, reportVars>>

\* lines 48-53 with _scroll_and_find (164-180): one round of its loop, or its end.
\* When it returns True, find_element calls itself with timeout=5; a call that
\* the interpreter has no frame left for raises RecursionError.
FwScrollAndFindStep ==
    /\ fwPc = "scroll_find"
    /\ IF fwScroll < max_scrolls
       THEN \E outcome \in ProbeOutcomes(fwReq.ltype) :
              LET probe == Probe(fwReq.ltype, outcome)
              IN  /\ fwProbe' = probe
                  /\ fwWaits' = IF outcome = "not_asked" THEN fwWaits ELSE fwWaits + 1
                  /\ fwSeen' = (fwSeen \/ outcome = "present")
                  /\ IF probe.returned
                     THEN IF fwDepth < RecursionLimit
                          THEN /\ fwDepth' = fwDepth + 1
                               /\ fwTimeout' = RetryTimeout
                               /\ fwPc' = "presence"
                               /\ UNCHANGED <<fwGestures, fwScroll, fwResult>>
                          ELSE /\ fwPc' = "done"
                               /\ fwResult' = "RecursionError"
                               /\ UNCHANGED <<fwDepth, fwTimeout, fwGestures, fwScroll>>
                     ELSE /\ fwGestures' = fwGestures + 1
                          /\ fwScroll' = fwScroll + 1
                          /\ UNCHANGED <<fwPc, fwDepth, fwTimeout, fwResult>>
       ELSE /\ fwPc' = "done"
            /\ fwResult' = "TimeoutException"
            /\ UNCHANGED <<fwDepth, fwTimeout, fwWaits, fwGestures, fwScroll, fwProbe, fwSeen>>
    /\ UNCHANGED fwReq
    /\ UNCHANGED <<resolverVars, healVars, unitVars, callerVars, learnerVars, waiterVars, reportVars>>

\* is_element_present(locator_type, locator_value, timeout) is called on its own
CallIsElementPresent ==
    /\ fwPc = "idle"
    /\ \E t \in FwLocatorTypes, timeout \in FwTimeoutArgs \cup {PresentTimeout} :
         /\ fwReq' = [op |-> "is_element_present", ltype |-> t, timeout |-> timeout]
         /\ fwTimeout' = TimeoutOr(timeout)
    /\ fwPc' = "probe"
    /\ UNCHANGED <<fwDepth, fwWaits, fwGestures, fwScroll, fwProbe, fwSeen, fwResult>>
    /\ UNCHANGED <<resolverVars, healVars, unitVars, callerVars, learnerVars, waiterVars, reportVars>>

\* lines 108-114
FwProbeStep ==
    /\ fwPc = "probe"
    /\ \E outcome \in ProbeOutcomes(fwReq.ltype) :
         LET probe == Probe(fwReq.ltype, outcome)
         IN  /\ fwProbe' = probe
             /\ fwWaits' = IF outcome = "not_asked" THEN fwWaits ELSE fwWaits + 1
             /\ fwSeen' = (outcome = "present")
             /\ fwResult' = IF probe.returned THEN "True" ELSE "False"
    /\ fwPc' = "done"
    /\ UNCHANGED <<fwReq, fwTimeout, fwDepth, fwGestures, fwScroll>>
    /\ UNCHANGED <<resolverVars, healVars, unitVars, callerVars, learnerVars, waiterVars, reportVars>>

\* the caller has the outcome; the next request starts afresh
FwRequestEnd ==
    /\ fwPc = "done"
    /\ fwPc' = "idle"
    /\ fwReq' = NoFwRequest
    /\ fwTimeout' = 0
    /\ fwDepth' = 0
    /\ fwWaits' = 0
    /\ fwGestures' = 0
    /\ fwScroll' = 0
    /\ fwProbe' = NoProbe
    /\ fwSeen' = FALSE
    /\ fwResult' = "none"
    /\ UNCHANGED <<resolverVars, healVars, unitVars, callerVars, learnerVars, waiterVars, reportVars>>

----------------------------------------------------------------------------
(* device_utils.py: ElementFinder.wait_for_element_disappear               *)

PollTimeout == 1          \* find_element_safe timeout of each poll

\* the pair find_element_safe returns: (element, locator_info) or (None, None)
ReturnedPair(info) ==
    IF info.found THEN <<"element", info.locator>> ELSE <<"None", "None">>

\* "not element" on what find_element_safe returned: a tuple is false only when
\* it is empty
NotElement(pair) == Len(pair) = 0

\* wait_for_element_disappear(locator_type, locator_value, timeout) is called
CallWaitForElementDisappear ==
    \E t \in LocatorTypes, raw \in RawValues, timeout \in 1..MaxWaitTimeout :
        /\ NewRequest([op |-> "wait_for_element_disappear", ltype |-> t, raw |-> raw,
                       timeout |-> timeout, maxScrolls |-> 0], <<>>)
        /\ pc' = "wait_find"
        /\ StartFind(PollTimeout)

\* lines 847-850 after the find_element_safe call of line 847 has returned, and
\* the next round of the loop or the return of line 853
WaitDisappearStep ==
    /\ pc = "wait_find" /\ ~fsActive
    /\ absentSeen' = (absentSeen \/ ~fsResult.found)
    /\ IF NotElement(ReturnedPair(fsResult))
       THEN /\ pc' = "done"
            /\ result' = [status |-> "True", stage |-> "wait", info |-> fsResult]
            /\ UNCHANGED <<waitAttempt, fsActive, fsIdx, fsAttempt, fsTimeout, fsResult,
                           queryLog, transportError>>
       ELSE /\ waitAttempt' = waitAttempt + 1
            /\ IF waitAttempt + 1 < req.timeout
               THEN /\ StartFind(PollTimeout)
                    /\ UNCHANGED <<pc, result>>
               ELSE /\ pc' = "done"
                    /\ result' = [status |-> "False", stage |-> "wait", info |-> fsResult]
                    /\ UNCHANGED <<fsActive, fsIdx, fsAttempt, fsTimeout, fsResult,
                                   queryLog, transportError>>
    /\ UNCHANGED <<req, ctx, contexts, directAttempt, scrollAttempt, swipes, scrollBroke,
                   origCtx, ctxIdx, switchCalls, lastSwitch>>
    /\ UNCHANGED <<healVars, unitVars, callerVars, learnerVars, frameworkVars, reportVars>>

----------------------------------------------------------------------------
(* self_healing.py: SelfHealingEngine.generate_healing_report              *)

NoReport == [done |-> FALSE, total_healings |-> 0, strategies_used |-> <<>>,
             success_rate |-> 0, healed_elements |-> <<>>]

\* lines 438-440: the counter of the strategy name is created at 0 and incremented
CountStrategyOnce(used, name) == Put(used, name, 1)

CountStrategy(used, name) ==
    Put(used, name, (IF name \in DOMAIN used THEN used[name] ELSE 0) + 1)

\* lines 442-447: the entry appended for one cache item
HealedElement(element_id, strategy) ==
    [original |-> element_id,
     strategy |-> strategy.name,
     new_locator |-> <<strategy.new_locator_type, "=">> \o strategy.new_locator_value,
     confidence |-> strategy.confidence]

\* the loop of line 437 over the items of the cache that are still to come; the
\* order of a dict is its insertion order, which the cache of this model does
\* not keep, so the items are taken in an arbitrary fixed order
RECURSIVE ReportItems(_, _, _)
ReportItems(cache, keys, rep) ==
    IF keys = {} THEN rep
    ELSE LET element_id == CHOOSE k \in keys : TRUE
             strategy == cache[element_id]
         IN  ReportItems(cache, keys \ {element_id},
                 [rep EXCEPT !.strategies_used = CountStrategy(@, strategy.name),
                             !.healed_elements =
                                 Append(@, HealedElement(element_id, strategy))])

\* generate_healing_report()
GenerateReport(cache) ==
    ReportItems(cache, DOMAIN cache,
                [NoReport EXCEPT !.done = TRUE,
                                 !.total_healings = Cardinality(DOMAIN cache)])

\* generate_healing_report is called between two requests
GenerateHealingReport ==
    /\ hpc = "idle" /\ ~report.done
    /\ report' = GenerateReport(healing_cache)
    /\ UNCHANGED <<resolverVars, healVars, unitVars, callerVars, learnerVars, frameworkVars, waiterVars>>

\* the caller has taken the report
ReportReturned ==
    /\ report.done
    /\ report' = NoReport
    /\ UNCHANGED <<resolverVars, healVars, unitVars, callerVars, learnerVars, frameworkVars, waiterVars>>

----------------------------------------------------------------------------

ResolverInit ==
    /\ pc = "idle"
    /\ req = NoRequest
    /\ ctx = 1
    /\ contexts = <<>>
    /\ fsActive = FALSE
    /\ fsIdx = 1
    /\ fsAttempt = 0
    /\ fsTimeout = 0
    /\ fsResult = NotFound
    /\ queryLog = <<>>
    /\ transportError = FALSE
    /\ directAttempt = 0
    /\ scrollAttempt = 0
    /\ swipes = 0
    /\ scrollBroke = FALSE
    /\ origCtx = 0
    /\ ctxIdx = 0
    /\ switchCalls = 0
    /\ lastSwitch = NoSwitch
    /\ result = NoResult

HealInit ==
    /\ hpc = "idle"
    /\ hreq = NoHealRequest
    /\ healing_cache = <<>>
    /\ element_history = <<>>
    /\ strategies = <<>>
    /\ sIdx = 0
    /\ generatorCalls = 0
    /\ cachedTry = NoCachedTry
    /\ attempted = <<>>
    /\ accepted = <<>>
    /\ origResolved = FALSE
    /\ hresult = NoHealResult

\* the objects the other specifications leave alone
RestInit ==
    /\ learnCalls = 0
    /\ retrains = 0
    /\ fwPc = "idle"
    /\ fwReq = NoFwRequest
    /\ fwTimeout = 0
    /\ fwDepth = 0
    /\ fwWaits = 0
    /\ fwGestures = 0
    /\ fwScroll = 0
    /\ fwProbe = NoProbe
    /\ fwSeen = FALSE
    /\ fwResult = "none"
    /\ waitAttempt = 0
    /\ absentSeen = FALSE
    /\ report = NoReport

Init ==
    /\ ResolverInit
    /\ HealInit
    /\ unitCall = NoUnitCall
    /\ unitOut = NoUnitOut
    /\ observed = NotObserved
    /\ RestInit

\* a single call of the validator or of predict_success is about to run
UnitInit ==
    /\ ResolverInit
    /\ HealInit
    /\ unitCall \in UnitCalls
    /\ unitOut = NoUnitOut
    /\ observed = NotObserved
    /\ RestInit

Next ==
    \/ CallFindElementSafe
    \/ CallScrollToElement
    \/ CallSmartFallback
    \/ FindSingleLocatorStep
    \/ FindElementSafeReturn
    \/ DirectStep
    \/ ScrollStep
    \/ ScrollReturn
    \/ SurfaceStep
    \/ SurfaceFindStep
    \/ FinalAttempt
    \/ FinalReturn
    \/ RequestEnd

Spec == Init /\ [][Next]_vars

HealNext ==
    \/ HealCall
    \/ TryOriginal
    \/ CacheLookup
    \/ Generate
    \/ TryStrategy
    \/ RaiseFailure
    \/ HealEnd

HealSpec == Init /\ [][HealNext]_vars

\* find_element_safe called on its own, by any caller or by execute_step
FindNext ==
    \/ CallFindElementSafe
    \/ CallExecuteStep
    \/ FindSingleLocatorStep
    \/ FindElementSafeReturn
    \/ InspectReturned
    \/ RequestEnd

FindSpec == Init /\ [][FindNext]_vars

\* the stage of find_element_with_smart_fallback a position belongs to
DeviceStage(p) ==
    CASE p = "direct" -> "direct"
      [] p \in {"scroll", "scroll_end"} -> "scroll"
      [] p \in {"surface", "surface_find"} -> "surface"
      [] p = "final" -> "final"
      [] p = "done" -> "end"
      [] OTHER -> "start"

\* the stage of find_element_with_healing a position belongs to; the attempt
\* on the original locator is the engine's own direct resolution
HealStage(h) ==
    CASE h = "original" -> "direct"
      [] h = "cache" -> "cache"
      [] h = "generate" -> "generate"
      [] h = "loop" -> "validate"
      [] h = "done" -> "end"
      [] OTHER -> "start"

\* the device manager is used while the healing engine is fresh and at rest
EngineAtRest == hpc = "idle" /\ healing_cache = <<>> /\ element_history = <<>>

\* the healing engine is used while the device manager is at rest on NATIVE_APP
DeviceAtRest == pc = "idle" /\ ctx = 1

\* requests are served one at a time: find_element_with_smart_fallback by the
\* device manager, find_element_with_healing by the healing engine
PipelineNext ==
    \/ EngineAtRest /\ CallSmartFallback
    \/ EngineAtRest /\ FindSingleLocatorStep
    \/ EngineAtRest /\ DirectStep
    \/ EngineAtRest /\ ScrollStep
    \/ EngineAtRest /\ ScrollReturn
    \/ EngineAtRest /\ SurfaceStep
    \/ EngineAtRest /\ SurfaceFindStep
    \/ EngineAtRest /\ FinalAttempt
    \/ EngineAtRest /\ FinalReturn
    \/ EngineAtRest /\ RequestEnd
    \/ DeviceAtRest /\ HealCall
    \/ DeviceAtRest /\ TryOriginal
    \/ DeviceAtRest /\ CacheLookup
    \/ DeviceAtRest /\ Generate
    \/ DeviceAtRest /\ TryStrategy
    \/ DeviceAtRest /\ RaiseFailure
    \/ DeviceAtRest /\ HealEnd

PipelineSpec == Init /\ [][PipelineNext]_vars

UnitNext ==
    \/ ValidateCall
    \/ PredictCall
    \/ ActionableCall

UnitSpec == UnitInit /\ [][UnitNext]_vars

ReportNext ==
    \/ ~report.done /\ HealCall
    \/ TryOriginal
    \/ CacheLookup
    \/ Generate
    \/ TryStrategy
    \/ RaiseFailure
    \/ HealEnd
    \/ GenerateHealingReport
    \/ ReportReturned

ReportSpec == Init /\ [][ReportNext]_vars

WaitNext ==
    \/ CallWaitForElementDisappear
    \/ FindSingleLocatorStep
    \/ WaitDisappearStep
    \/ RequestEnd

WaitSpec == Init /\ [][WaitNext]_vars

FrameworkNext ==
    \/ CallFrameworkFindElement
    \/ FwPresenceWait
    \/ FwClickableWait
    \/ FwScrollAndFindStep
    \/ CallIsElementPresent
    \/ FwProbeStep
    \/ FwRequestEnd

FrameworkSpec == Init /\ [][FrameworkNext]_vars

LearnSpec == Init /\ [][LearnCall]_vars

----------------------------------------------------------------------------
(* Properties of the direct resolver, scroll searcher and surface switcher *)
(* (checked under Spec)                                                    *)

\* the candidates c1..cn a pipe-delimited value declares
DeclaredCandidates(raw) == [i \in 1..Len(Split(raw)) |-> Strip(Split(raw)[i])]

\* C1: for a pipe-delimited value find_element_safe queries the candidates in
\* declaration order: the query at index i asks for the i-th declared
\* candidate, indexes never go back, every earlier candidate was queried
\* before and missed, nothing is queried after a match, and the returned
\* attempt is the 1-based position of the candidate that matched.
C1_DeclarationOrder ==
    HasPipe(req.raw) =>
        LET cands == DeclaredCandidates(req.raw)
            n == Len(queryLog)
        IN  /\ \A k \in 1..n :
                 /\ queryLog[k].idx \in 1..Len(cands)
                 /\ queryLog[k].value = cands[queryLog[k].idx]
                 /\ k > 1 => queryLog[k].idx >= queryLog[k - 1].idx
                 /\ \A j \in 1..(queryLog[k].idx - 1) :
                        \E m \in 1..(k - 1) : queryLog[m].idx = j /\ ~queryLog[m].hit
                 /\ k < n => ~queryLog[k].hit
            /\ (~fsActive /\ fsResult.found) =>
                 /\ n > 0
                 /\ queryLog[n].hit
                 /\ fsResult.attempt = queryLog[n].idx
                 /\ fsResult.locator = cands[fsResult.attempt]
                 /\ fsResult.total = Len(cands)
            /\ (~fsActive /\ ~fsResult.found) => \A k \in 1..n : ~queryLog[k].hit

\* the third candidate of a three-candidate value matched after the first two missed
C1_Witness ==
    /\ pc = "done"
    /\ req.op = "find_element_safe"
    /\ HasPipe(req.raw)
    /\ result.status = "found"
    /\ result.info.attempt = 3
    /\ Len(queryLog) > 3

C3_SurfaceRestoredOnFailure ==
    (pc = "final" /\ origCtx # 0 /\ switchCalls > 0) => ctx = origCtx

\* C4: when the surface stage finds the element on alternate surface Y, the
\* request returns it with the current surface equal to Y, and the switch
\* to Y is the last surface switch of the request.
C4_SurfaceRetainedOnSuccess ==
    (pc = "done" /\ result.stage = "surface") =>
        /\ result.status = "found"
        /\ ctx = contexts[ctxIdx]
        /\ ctx # origCtx
        /\ lastSwitch = [target |-> ctx, ok |-> TRUE]

\* found on the second alternate surface after the first one missed
C4_Witness ==
    /\ pc = "done"
    /\ result.stage = "surface"
    /\ result.status = "found"
    /\ origCtx = 1
    /\ ctx = 3
    /\ switchCalls >= 3

----------------------------------------------------------------------------
(* Properties of find_element_with_healing (checked under HealSpec)        *)

RequestId == ElementId(hreq.ltype, hreq.value)

NonIncreasing(list) ==
    \A i \in 1..(Len(list) - 1) : list[i].confidence >= list[i + 1].confidence

WithConfidence(c) == [NoStrategy EXCEPT !.confidence = c]

\* C5: the generated list is ordered by confidence non-increasing
\* (0.7, 0.5, 0.65 come out as 0.7, 0.65, 0.5), and the loop hands the
\* strategies to the driver and the validator in exactly the order of the
\* list: what has been attempted is the list's prefix up to the loop
\* position, whether or not earlier strategies were accepted.
C5_RankedOrder ==
    /\ NonIncreasing(strategies)
    /\ hpc \in {"loop", "done"} /\ generatorCalls > 0 =>
         /\ Len(attempted) = sIdx - 1
         /\ attempted = SubSeq(strategies, 1, Len(attempted))
         /\ NonIncreasing(accepted)
         /\ \A i \in 1..Len(accepted) : \E j \in 1..Len(attempted) : attempted[j] = accepted[i]
    /\ SortByConfidence(<<WithConfidence(70), WithConfidence(50), WithConfidence(65)>>)
         = <<WithConfidence(70), WithConfidence(65), WithConfidence(50)>>

\* four strategies, the learned prediction ranked first, and the last one
\* reached although an earlier one had been accepted
C5_Witness ==
    /\ hpc = "loop"
    /\ Len(strategies) = 4
    /\ strategies[1].name = "AI Prediction"
    /\ strategies[2].name = "Partial ID Match"
    /\ strategies[3].name = "CSS Selector"
    /\ Len(attempted) = 4
    /\ Len(accepted) >= 1
    /\ accepted[1] = strategies[1]

\* C6: a cache entry for the requested key is tried before anything is
\* generated, and when its locator resolves the request returns that element
\* through the cached strategy without a call of the generator and without
\* trying any generated strategy.
C6_CachePrecedence ==
    /\ ( /\ hpc \in {"generate", "loop", "done"}
         /\ hresult.via # "original"
         /\ accepted = <<>>
         /\ RequestId \in DOMAIN healing_cache )
       => cachedTry.strategy = healing_cache[RequestId]
    /\ cachedTry.resolved =>
         /\ hpc = "done"
         /\ hresult.status = "returned"
         /\ hresult.via = "cache"
         /\ hresult.strategy = cachedTry.strategy
         /\ generatorCalls = 0
         /\ attempted = <<>>
    /\ generatorCalls > 0 => ~cachedTry.resolved

\* a request served from the cache
C6_Witness ==
    /\ hpc = "done"
    /\ cachedTry.resolved
    /\ cachedTry.strategy.name = "CSS Selector"
    /\ hresult.via = "cache"
    /\ generatorCalls = 0

C7_KeysKept ==
    \A k \in DOMAIN healing_cache :
        /\ k \in DOMAIN healing_cache'
        /\ \/ healing_cache'[k] = healing_cache[k]
           \/ /\ k = RequestId
              /\ accepted' # <<>>
              /\ healing_cache'[k] = accepted'[Len(accepted')]

C7_EntryAfterFailedHit ==
    (hpc = "done" /\ cachedTry.strategy # NoStrategy /\ ~cachedTry.resolved) =>
        /\ RequestId \in DOMAIN healing_cache
        /\ \/ healing_cache[RequestId] = cachedTry.strategy
           \/ \E i \in 1..Len(accepted) : healing_cache[RequestId] = accepted[i]

\* C7: no step of any request removes a key from healing_cache, an entry
\* changes only to a strategy accepted in the running request, and after a
\* request whose cached strategy failed the entry is still there, holding
\* the same strategy or one accepted in that request.
C7_CacheSurvivesFailure == [][C7_KeysKept]_vars /\ []C7_EntryAfterFailedHit

\* the cached strategy failed, nothing else was accepted, the entry is unchanged
C7_Witness ==
    /\ hpc = "done"
    /\ cachedTry.strategy # NoStrategy
    /\ ~cachedTry.resolved
    /\ hresult.status = "raised"
    /\ accepted = <<>>
    /\ healing_cache[RequestId] = cachedTry.strategy

\* C8: every element returned was a direct match of the requested locator
\* or was accepted by _validate_healed_element in this request.
C8_ReturnedIsValidated ==
    (hpc = "done" /\ hresult.status = "returned") =>
        \/ hresult.via = "original"
        \/ hresult.validated /\ ValidateHealedElement(hresult.element)

\* C9: for (id, login_btn_9f3a) with nothing cached, the original locator
\* failing and Partial ID Match resolving to an accepted element, the
\* request returns through Partial ID Match and the cache maps the key to it.
C9_EndToEnd ==
    ( /\ hpc = "done"
      /\ hreq = [ltype |-> "id", value |-> LoginValue]
      /\ cachedTry.strategy = NoStrategy
      /\ accepted # <<>>
      /\ accepted[1].name = "Partial ID Match" )
    => /\ hresult.status = "returned"
       /\ hresult.strategy.name = "Partial ID Match"
       /\ healing_cache[RequestId].name = "Partial ID Match"

----------------------------------------------------------------------------
(* Claims about single calls of the validator and of predict_success       *)

\* C11: the text rule and the attribute rule of the validator accept only
\* on a ratio strictly above 0.5; a displayed, enabled element whose ratios
\* do not exceed 0.5 (exactly 0.5 included) is accepted by the last-resort
\* rule and by no other.
C11_StrictSimilarity ==
    (unitCall.fn = "validate" /\ unitOut.done) =>
        /\ unitOut.rule = "text" => unitCall.element.textSim > 50
        /\ unitOut.rule = "attribute" => unitCall.element.attrSim > 50
        /\ ( /\ ~unitCall.element.stale
             /\ unitCall.element.displayed /\ unitCall.element.enabled
             /\ unitCall.element.textSim <= 50
             /\ unitCall.element.attrSim <= 50 )
           => unitOut.rule = "last_resort"

\* both ratios are exactly 0.5 and the element was accepted as a last resort
C11_Witness ==
    /\ unitCall.fn = "validate" /\ unitOut.done
    /\ unitCall.element.displayed /\ unitCall.element.enabled
    /\ unitCall.element.textSim = 50
    /\ unitCall.element.attrSim = 50
    /\ unitOut.rule = "last_resort"

\* C12: predict_success on a learner whose classifier was never fitted
\* returns exactly 0.5, whatever the signature.
C12_UntrainedGivesNeutral ==
    (unitCall.fn = "predict" /\ unitOut.done /\ ~unitCall.fitted) =>
        ~unitOut.raised /\ unitOut.value = NeutralProbability

\* C13: predict_success never raises.
C13_NeverRaises ==
    (unitCall.fn = "predict" /\ unitOut.done) => ~unitOut.raised

----------------------------------------------------------------------------
(* Claims about find_element_safe called on its own (checked under FindSpec) *)

\* C14: find_element_safe reports an absent element as not-found without
\* raising, and a transport failure of a driver call is not reported as
\* not-found.
C14_TransportFailurePropagates ==
    (pc = "done" /\ result.status = "notfound") => ~transportError

\* C19: an element returned by find_element_safe is displayed and enabled.
C19_ReturnedIsActionable ==
    observed.done => (observed.displayed /\ observed.enabled)

\* C20: of the locator value execute_step builds, no empty entry is tried
\* as a candidate, and a value that is non-empty after trimming has at
\* least one candidate.
C20_EmptyEntriesDiscarded ==
    req.op = "execute_step" =>
        /\ \A k \in 1..Len(queryLog) : queryLog[k].value # <<>>
        /\ Strip(req.raw) # <<>> => Len(Locators(req.raw)) >= 1

----------------------------------------------------------------------------
(* Further claims about find_element_with_healing (checked under HealSpec) *)

\* C15: the request ends in failure only when nothing resolved: not the
\* original locator, not the cached strategy, and no generated strategy
\* whose element the validator accepted.
C15_FailureOnlyOnExhaustion ==
    (hpc = "done" /\ hresult.status = "raised") =>
        /\ ~origResolved
        /\ ~cachedTry.resolved
        /\ accepted = <<>>

\* C17: when the original locator resolves, the request returns that
\* element; the cache is not consulted and no strategies are generated.
C17_OriginalShortCircuits ==
    origResolved =>
        /\ hpc = "done"
        /\ hresult.status = "returned"
        /\ hresult.via = "original"
        /\ cachedTry = NoCachedTry
        /\ generatorCalls = 0

\* C18: the generated list is ordered by confidence, highest first, and
\* strategies of equal confidence stand in the registration order of their
\* heuristics; no two entries are interchangeable, so the list is determined
\* by the set of strategies emitted.
C18_TiesInRegistrationOrder ==
    \A i, j \in 1..Len(strategies) :
        i < j =>
            \/ strategies[i].confidence > strategies[j].confidence
            \/ /\ strategies[i].confidence = strategies[j].confidence
               /\ RegistrationRank(strategies[i].name) < RegistrationRank(strategies[j].name)

\* CSS Selector and AI Prediction were both emitted with confidence 0.65
C18_Witness ==
    /\ hpc = "loop"
    /\ \E i \in 1..(Len(strategies) - 1) :
         /\ strategies[i].name = "CSS Selector"
         /\ strategies[i + 1].name = "AI Prediction"
         /\ strategies[i].confidence = strategies[i + 1].confidence

----------------------------------------------------------------------------
(* Stage order of a request (checked under PipelineSpec)                   *)

Position(order, s) == CHOOSE i \in 1..Len(order) : order[i] = s

\* no step of a request goes back in order; a request ends by going to "start"
Forward(order, from, to) ==
    to = "start" \/ Position(order, to) >= Position(order, from)

ClaimedOrder ==
    <<"start", "direct", "scroll", "surface", "cache", "generate", "validate", "end">>

\* line 720 runs find_element_safe in the current context, as the direct stage does
AsClaimedStage(s) == IF s = "final" THEN "direct" ELSE s

\* C16 as stated: the stages of a request are entered in the order direct,
\* scroll, surface-switch, cache lookup, heal-generate, heal-validate, end,
\* and none is entered again after it was left.
C16_ClaimedStageOrder ==
    [][ /\ Forward(ClaimedOrder, AsClaimedStage(DeviceStage(pc)),
                   AsClaimedStage(DeviceStage(pc')))
        /\ Forward(ClaimedOrder, HealStage(hpc), HealStage(hpc')) ]_vars

ActualOrder ==
    <<"start", "direct", "scroll", "surface", "final", "cache", "generate", "validate",
      "end">>

\* C16 amended: find_element_with_smart_fallback goes forward through direct,
\* scroll, surface-switch and a final run of the direct resolver with the
\* full timeout; find_element_with_healing goes forward through its direct
\* attempt, cache lookup, heal-generate and heal-validate; no stage of this
\* order is entered again after it was left.
C16_StagesForward ==
    [][ /\ Forward(ActualOrder, DeviceStage(pc), DeviceStage(pc'))
        /\ Forward(ActualOrder, HealStage(hpc), HealStage(hpc')) ]_vars

\* the final run of the direct resolver has begun after the surface stage
\* tried an alternate surface
C16_Witness ==
    /\ pc = "final"
    /\ fsActive
    /\ origCtx # 0
    /\ switchCalls > 0

----------------------------------------------------------------------------
(* Claims about the learner used on its own (checked under LearnSpec)      *)

\* C21: the model has been retrained once for every full batch of 100
\* outcomes handed to learn_element, and at no other time.
C21_RetrainEveryBatch ==
    retrains = learnCalls \div RetrainEvery

----------------------------------------------------------------------------
(* Further claims about single calls (checked under UnitSpec)              *)

\* C22: when the driver reads succeed, _validate_healed_element accepts the
\* element exactly when it is displayed and enabled, whatever its text and
\* attribute similarity to the original value.
C22_ValidatorIsActionability ==
    (unitCall.fn = "validate" /\ unitOut.done /\ ~unitCall.element.stale) =>
        ((unitOut.rule # "rejected")
            <=> (unitCall.element.displayed /\ unitCall.element.enabled))

\* a displayed, enabled element with text ratio 0.5 and attribute ratio 0.2
\* was accepted
C22_Witness ==
    /\ unitCall.fn = "validate" /\ unitOut.done
    /\ ~unitCall.element.stale
    /\ unitCall.element.displayed /\ unitCall.element.enabled
    /\ unitCall.element.textSim = 50
    /\ unitCall.element.attrSim = 20
    /\ unitOut.rule # "rejected"

----------------------------------------------------------------------------
(* Further claims about the generated strategies (checked under HealSpec)  *)

\* C23: for the failed locator (id, login_btn_9f3a) the generator emits
\* Partial ID Match with confidence 0.7 and an xpath that matches on the
\* prefix "login_btn", the value without its generated suffix.
C23_PartialIdKeepsStablePrefix ==
    (hpc = "loop" /\ hreq = [ltype |-> "id", value |-> LoginValue]) =>
        \E i \in 1..Len(strategies) :
            /\ strategies[i].name = "Partial ID Match"
            /\ strategies[i].confidence = 70
            /\ strategies[i].new_locator_type = "xpath"
            /\ strategies[i].new_locator_value =
                   <<"//*[starts-with(@id, '", "login", "_", "btn", "')]">>

\* C24: _is_actionable answers True only for an element that is displayed and
\* enabled and meets the rule of the action: click needs a clickable element or an
\* interactive tag, input needs a focusable text-input field, scroll needs a
\* scrollable container.  An input target that is not focusable is never
\* reported actionable.
C24_ActionableMeetsActionRule ==
    (unitOut.done /\ unitCall.fn = "is_actionable" /\ unitOut.actionable)
        => LET el == unitCall.target
               tag == LowerTag(el.tag_name)
           IN  /\ el.present /\ el.displayed /\ el.enabled
               /\ unitCall.action = "click"
                     => (el.clickable
                         \/ \E t \in {<<"button">>, <<"image", "button">>, <<"textview">>} :
                               TagIn(t, tag))
               /\ unitCall.action = "input"
                     => (el.focusable
                         /\ (TagIn(<<"edittext">>, tag) \/ TagIn(<<"autocomplete">>, tag)))
               /\ unitCall.action = "scroll"
                     => \E t \in {<<"scrollview">>, <<"recyclerview">>, <<"listview">>,
                                 <<"viewpager">>} : TagIn(t, tag)

\* C25: with at most one rendering surface available, the surface stage of
\* find_element_with_smart_fallback is a no-op: the request never enters the
\* stage, no surface-switch call is issued and the current surface stays as it is.
C25_SingleSurfaceStageIsNoOp ==
    [][(req.op = "smart_fallback" /\ Len(contexts) <= 1 /\ pc # "done")
          => /\ ctx' = ctx
             /\ switchCalls' = 0 /\ lastSwitch' = NoSwitch
             /\ origCtx' = 0
             /\ pc' \notin {"surface", "surface_find"}]_vars

C25_Witness ==
    /\ req.op = "smart_fallback" /\ Len(contexts) = 1
    /\ pc = "final" /\ scrollAttempt > 0
    /\ switchCalls = 0 /\ ctx = 1

\* C26: in the surface stage the engine is back on the originating surface
\* whenever it switches to the next alternate surface, so it never goes from one
\* alternate surface directly to another, and the surface it tries is never the
\* one that was current when the stage began.
C26_AlternatesTriedFromOrigin ==
    [][(pc = "surface" /\ pc' = "surface_find")
          => (ctx = origCtx /\ ctx' # origCtx)]_vars

----------------------------------------------------------------------------
(* Claims about framework/core/element_finder.py (checked under FrameworkSpec) *)

\* C27: find_element on an element that no wait ever sees ends by re-raising the
\* timeout after a bounded scroll-and-search: at most max_scrolls gestures, and
\* recursion that stops by itself and not at the interpreter's frame limit.
C27_NeverFoundEndsInTimeout ==
    (fwPc = "done" /\ fwReq.op = "find_element" /\ ~fwSeen
        /\ ~GetByTypeRaises(fwReq.ltype) /\ fwResult # "WebDriverException")
        => /\ fwResult = "TimeoutException"
           /\ fwDepth < RecursionLimit
           /\ fwGestures <= max_scrolls

\* C28: is_element_present returns True exactly when the driver saw the element
\* within the timeout and False otherwise, so _scroll_and_find, which returns
\* True on such an answer, returns True only for an element seen present.
C28_PresentExactlyWhenSeen ==
    fwProbe.done => (fwProbe.returned <=> fwProbe.outcome = "present")

----------------------------------------------------------------------------
(* Claim about wait_for_element_disappear (checked under WaitSpec)         *)

\* C29: wait_for_element_disappear returns True as soon as a poll finds the
\* element absent, and returns False only when every poll found it.
C29_TrueOnceAbsent ==
    (req.op = "wait_for_element_disappear" /\ absentSeen)
        => (pc = "done" /\ result.status = "True")

----------------------------------------------------------------------------
(* Claim about generate_healing_report (checked under ReportSpec)          *)

RECURSIVE SumOver(_, _)
SumOver(f, keys) ==
    IF keys = {} THEN 0
    ELSE LET k == CHOOSE x \in keys : TRUE IN f[k] + SumOver(f, keys \ {k})

\* C30: the report agrees with the healing cache: total_healings is the number
\* of cache entries, the length of healed_elements and the sum of the counts in
\* strategies_used, and every cached element appears exactly once in
\* healed_elements, with the strategy the cache holds for it.
C30_ReportAgreesWithCache ==
    report.done =>
        /\ report.total_healings = Cardinality(DOMAIN healing_cache)
        /\ report.total_healings = Len(report.healed_elements)
        /\ report.total_healings
              = SumOver(report.strategies_used, DOMAIN report.strategies_used)
        /\ \A i \in 1..Len(report.healed_elements) :
              report.healed_elements[i].original \in DOMAIN healing_cache
        /\ \A k \in DOMAIN healing_cache :
              /\ Cardinality({i \in 1..Len(report.healed_elements) :
                                 report.healed_elements[i].original = k}) = 1
              /\ \A i \in 1..Len(report.healed_elements) :
                    report.healed_elements[i].original = k
                        => report.healed_elements[i].strategy = healing_cache[k].name

C30_Witness ==
    /\ report.done
    /\ report.total_healings >= 2
    /\ \E n \in DOMAIN report.strategies_used : report.strategies_used[n] >= 2

=============================================================================
